---- MODULE Spec2Model ----
(***************************************************************************)
(* NegaBot API: request handling (api.py), the sentiment classifier        *)
(* wrapper (model.py) and the SQLite prediction log (database.py).         *)
(*                                                                         *)
(* A request sits in a slot and its pc names the next step of its handler: *)
(* the classifier call, each append to the store, the return.  Requests    *)
(* of several workers, and the passing of time, interleave between steps.  *)
(***************************************************************************)
EXTENDS Integers, Sequences, FiniteSets, TLC

(* ---------- bounds of the model ---------- *)
MaxInflight == 2        \* request slots handled at the same time
MaxRequests == 2        \* requests submitted in one behaviour
MaxNow == 1             \* last second of the wall clock
MaxFaults == 1          \* classifier / store faults injected in one behaviour

(* ---------- program constants ---------- *)
TextMinLength == 1      \* TweetRequest.text min_length
TextMaxLength == 1000   \* TweetRequest.text max_length
TweetsMinItems == 1     \* BatchTweetRequest.tweets min_items
TweetsMaxItems == 50    \* BatchTweetRequest.tweets max_items

Slots == 1..MaxInflight

(* ---------- input values ---------- *)
RECURSIVE Rep(_, _)
Rep(s, n) ==
    IF n = 0 THEN ""
    ELSE IF n % 2 = 0 THEN LET h == Rep(s, n \div 2) IN h \o h
    ELSE s \o Rep(s, n - 1)

LongText == Rep("x", TextMaxLength)
TooLongText == Rep("x", TextMaxLength + 1)

\* Python None, and dict values as sets of <<key, value>> pairs
None == [null |-> TRUE, items |-> {}]
Dict(items) == [null |-> FALSE, items |-> items]

\* the bodies of POST /predict: every text and every metadata value occurs
PredictBodies ==
    {<<"", None>>,
     <<"good", None>>,
     <<"bad", Dict({<<"source", "test">>})>>,
     <<LongText, Dict({})>>,
     <<TooLongText, None>>}

\* the bodies of POST /batch_predict: no item, items of both sentiments, an
\* empty item, max_items items and max_items + 1 items
FullList == [k \in 1..TweetsMaxItems |-> "good"]
OverfullList == [k \in 1..(TweetsMaxItems + 1) |-> "good"]
BatchBodies ==
    {<<<<>>, None>>,
     <<<<"good", "good", "bad">>, Dict({<<"source", "test">>})>>,
     <<<<"">>, Dict({})>>,
     <<FullList, None>>,
     <<OverfullList, None>>}

(* ---------- pydantic request validation (api.py) ---------- *)
\* Python truthiness of an Optional[dict]: None and {} are falsy
Truthy(d) == ~d.null /\ d.items # {}

\* variant: min_length is not enforced
TweetRequest_no_min(text) == Len(text) <= TextMaxLength

\* TweetRequest: text: str = Field(..., min_length=1, max_length=1000)
TweetRequest(text) ==
    Len(text) >= TextMinLength /\ Len(text) <= TextMaxLength

\* BatchTweetRequest: tweets: List[str] = Field(..., min_items=1, max_items=50)
BatchTweetRequest(tweets) ==
    Len(tweets) >= TweetsMinItems /\ Len(tweets) <= TweetsMaxItems

(* ---------- the classifier (model.py) ---------- *)
\* The network is an external capability with pretrained weights: a fixed
\* map from a text to the two logits.
Logits(text) ==
    IF text = "bad" THEN <<0, 2>>
    ELSE IF text = "" THEN <<1, 1>>
    ELSE IF text = "good" THEN <<3, 0>>
    ELSE <<1, 0>>

\* torch.softmax over two logits, in millionths: the logistic function of
\* the difference of the logits
Sigmoid(d) ==
    CASE d = -3 -> 47426
      [] d = -2 -> 119203
      [] d = -1 -> 268941
      [] d = 0 -> 500000
      [] d = 1 -> 731059
      [] d = 2 -> 880797
      [] d = 3 -> 952574

softmax(logits) ==
    <<Sigmoid(logits[1] - logits[2]), 1000000 - Sigmoid(logits[1] - logits[2])>>

\* torch.argmax: index of the first maximal value (0-based)
argmax(logits) == IF logits[2] > logits[1] THEN 1 ELSE 0

\* variant: the probability is rounded as a percentage
round4_percent(p) == p

\* round(x, 4) of a probability in millionths, result in ten-thousandths;
\* Python rounds half to even
round4(p) ==
    LET q == p \div 100
        r == p % 100
    IN  IF r > 50 \/ (r = 50 /\ q % 2 = 1) THEN q + 1 ELSE q

\* variant: the labels of the two classes are exchanged
predict_swapped(text) ==
    LET logits == Logits(text)
        probabilities == softmax(logits)
        predicted_class == argmax(logits)
        confidence == probabilities[predicted_class + 1]
        sentiment == IF predicted_class = 1 THEN "Positive" ELSE "Negative"
    IN  [text |-> text,
         sentiment |-> sentiment,
         confidence |-> round4(confidence),
         predicted_class |-> predicted_class,
         probabilities |-> [positive |-> round4(probabilities[1]),
                            negative |-> round4(probabilities[2])]]

\* NegaBotModel.predict
predict(text) ==
    LET logits == Logits(text)
        probabilities == softmax(logits)
        predicted_class == argmax(logits)
        confidence == probabilities[predicted_class + 1]
        sentiment == IF predicted_class = 1 THEN "Negative" ELSE "Positive"
    IN  [text |-> text,
         sentiment |-> sentiment,
         confidence |-> round4(confidence),
         predicted_class |-> predicted_class,
         probabilities |-> [positive |-> round4(probabilities[1]),
                            negative |-> round4(probabilities[2])]]

(* ---------- the prediction log (database.py) ---------- *)
\* a NULL column, and the text json.dumps writes for a dict
SqlNull == [sqlnull |-> TRUE, json |-> {}]
json_dumps(d) == [sqlnull |-> FALSE, json |-> d.items]
json_loads(col) == Dict(col.json)

\* predicted_class: int = None
NoClass == -1

\* The clock counts seconds, the resolution of CURRENT_TIMESTAMP; an ISO
\* timestamp is kept at the same resolution.
CURRENT_TIMESTAMP(t) == t

\* PredictionLogger.log_prediction: the row the INSERT adds to the table
PredictionLogger_log_prediction(rows, t, text, sentiment, confidence, predicted_class, metadata) ==
    LET pc == IF predicted_class = NoClass
              THEN (IF sentiment = "Negative" THEN 1 ELSE 0)
              ELSE predicted_class
    IN  Append(rows,
               [id |-> Len(rows) + 1,
                text |-> text,
                sentiment |-> sentiment,
                confidence |-> confidence,
                predicted_class |-> pc,
                timestamp |-> t,
                metadata |-> IF Truthy(metadata) THEN json_dumps(metadata)
                             ELSE SqlNull,
                created_at |-> CURRENT_TIMESTAMP(t)])

\* variant: a write into a table that already has a row of the same second
\* is lost
log_prediction_lost(rows, t, text, sentiment, confidence, metadata) ==
    IF rows # <<>> /\ rows[Len(rows)].created_at = CURRENT_TIMESTAMP(t)
    THEN rows
    ELSE PredictionLogger_log_prediction(rows, t, text, sentiment, confidence,
                                         NoClass, metadata)

\* module-level log_prediction: no predicted_class is passed on
log_prediction(rows, t, text, sentiment, confidence, metadata) ==
    PredictionLogger_log_prediction(rows, t, text, sentiment, confidence,
                                    NoClass, metadata)

\* ORDER BY created_at DESC.  SQL leaves the order of rows with equal
\* created_at open: ties come out either in rowid order (tie = "asc") or
\* in reverse rowid order (tie = "desc").
Before(a, b, tie) ==
    \/ a.created_at > b.created_at
    \/ /\ a.created_at = b.created_at
       /\ IF tie = "asc" THEN a.id < b.id ELSE a.id > b.id

RECURSIVE InsertRow(_, _, _)
InsertRow(sorted, r, tie) ==
    IF sorted = <<>> THEN <<r>>
    ELSE IF Before(r, Head(sorted), tie) THEN <<r>> \o sorted
    ELSE <<Head(sorted)>> \o InsertRow(Tail(sorted), r, tie)

RECURSIVE OrderByCreatedAtDesc(_, _)
OrderByCreatedAtDesc(rows, tie) ==
    IF rows = <<>> THEN <<>>
    ELSE InsertRow(OrderByCreatedAtDesc(Tail(rows), tie), Head(rows), tie)

TieOrders == {"asc", "desc"}

\* limit: int = None
NoLimit == -1

\* the dict get_all_predictions builds from a row
PredictionDict(row) ==
    [id |-> row.id,
     text |-> row.text,
     sentiment |-> row.sentiment,
     confidence |-> row.confidence,
     predicted_class |-> row.predicted_class,
     timestamp |-> row.timestamp,
     metadata |-> IF ~row.metadata.sqlnull THEN json_loads(row.metadata)
                  ELSE None,
     created_at |-> row.created_at]

\* PredictionLogger.get_all_predictions; "if limit:" skips LIMIT for None and 0
get_all_predictions(rows, limit, tie) ==
    LET ordered == OrderByCreatedAtDesc(rows, tie)
        fetched == IF limit # NoLimit /\ limit # 0
                   THEN SubSeq(ordered, 1, IF limit < Len(ordered) THEN limit
                                           ELSE Len(ordered))
                   ELSE ordered
    IN  [k \in 1..Len(fetched) |-> PredictionDict(fetched[k])]

(* ---------- statistics (api.py, get_prediction_stats) ---------- *)
\* variant: the quotient is truncated
RoundDiv_floor(n, d) == n \div d

\* round(n / d) to the nearest integer, half to even
RoundDiv(n, d) ==
    LET q == n \div d
        r == n % d
    IN  IF 2 * r > d \/ (2 * r = d /\ q % 2 = 1) THEN q + 1 ELSE q

RECURSIVE SumConfidence(_)
SumConfidence(predictions) ==
    IF predictions = <<>> THEN 0
    ELSE Head(predictions).confidence + SumConfidence(Tail(predictions))

\* variant: the comparison is made with the lower-case label
CountPositive_lowercase(predictions) ==
    Cardinality({k \in 1..Len(predictions) : predictions[k].sentiment = "positive"})

RECURSIVE CountPositive(_)
CountPositive(predictions) ==
    IF predictions = <<>> THEN 0
    ELSE (IF Head(predictions).sentiment = "Positive" THEN 1 ELSE 0)
         + CountPositive(Tail(predictions))

\* the dict GET /stats returns for the list get_all_predictions() gave it;
\* percentages in hundredths of a percent, confidence in ten-thousandths
StatsOf(predictions, t) ==
    IF predictions = <<>>
    THEN [total_predictions |-> 0,
          positive_count |-> 0,
          negative_count |-> 0,
          average_confidence |-> 0,
          message |-> "No predictions found"]
    ELSE LET total == Len(predictions)
             positive_count == CountPositive(predictions)
             negative_count == total - positive_count
         IN  [total_predictions |-> total,
              positive_count |-> positive_count,
              negative_count |-> negative_count,
              positive_percentage |-> RoundDiv(positive_count * 10000, total),
              negative_percentage |-> RoundDiv(negative_count * 10000, total),
              average_confidence |-> RoundDiv(SumConfidence(predictions), total),
              last_updated |-> t]

(* ---------- state ---------- *)
VARIABLES
    lifecycle,   \* "Starting", "Ready" or "Unavailable"
    model,       \* api.model: "None" or "NegaBotModel"
    now,         \* the wall clock, in seconds
    store,       \* the rows of table predictions, in rowid order
    req,         \* the request handled in each slot
    submitted,   \* requests submitted so far
    faults       \* faults injected so far

vars == <<lifecycle, model, now, store, req, submitted, faults>>

NoBody == [none |-> TRUE]

Idle ==
    [kind |-> "idle", text |-> "", tweets |-> <<>>, metadata |-> None,
     limit |-> NoLimit, pc |-> "done", i |-> 0, results |-> <<>>,
     responses |-> <<>>, status |-> 0, body |-> NoBody,
     total_count |-> 0, sentiment_counts |-> <<>>,
     calls |-> 0, appended |-> 0, sawNone |-> FALSE, fault |-> "none"]

Init ==
    /\ lifecycle = "Starting"
    /\ model = "None"
    /\ now = 0
    /\ store = <<>>
    /\ req = [s \in Slots |-> Idle]
    /\ submitted = 0
    /\ faults = 0

\* variant: the process keeps serving after a failed startup
Serving_always == TRUE

\* a startup event that raises ends the process: requests are handled
\* before the startup event has run (a TestClient that is not entered) and
\* after it has returned
Serving == lifecycle # "Unavailable"

\* a new request goes to the first slot whose request has been answered
FreeSlot(s) ==
    /\ req[s].pc = "done"
    /\ \A r \in Slots : r < s => req[r].pc # "done"

\* a batch of max_items items is handled alone: it is the only request of
\* its behaviour
FullBatchSubmitted ==
    \E r \in Slots : Len(req[r].tweets) = TweetsMaxItems
MaySubmit(s) ==
    /\ Serving /\ FreeSlot(s) /\ submitted < MaxRequests
    /\ ~FullBatchSubmitted

Done(r, status, body) == [r EXCEPT !.pc = "done", !.status = status, !.body = body]

\* the handler raises HTTPException e: the response carries its status and
\* detail
Raise(r, e) == Done(r, e.status, [detail |-> e.detail])

\* str(e) of the exceptions a handler catches
HTTPException(status, detail) == [status |-> status, detail |-> detail]
ModelNotLoaded == [status |-> 503, detail |-> "Model not loaded",
                   str |-> "503: Model not loaded"]
ClassifierFault == [str |-> "classifier fault"]
StoreFault == [str |-> "database is locked"]
DiskFault == [str |-> "disk I/O error"]

\* the exceptions sqlite3 raises in the INSERT of a POST /predict; the
\* INSERT of a batch item raises the first one
StoreFaults == {StoreFault, DiskFault}

\* variant: the batch handler answers 200 when it has caught an exception
batch_except_swallow(e) == [status |-> 200, detail |-> "Batch prediction failed: " \o e.str]

\* except Exception as e: raise HTTPException(status_code=500, ...)
predict_except(e) == HTTPException(500, "Prediction failed: " \o e.str)
batch_except(e) == HTTPException(500, "Batch prediction failed: " \o e.str)

\* variant: the confidence reported goes down with the number of records
\* in the store
TweetResponse_store_dependent(result, t) ==
    [text |-> result.text,
     sentiment |-> result.sentiment,
     confidence |-> result.confidence - Len(store),
     predicted_class |-> result.predicted_class,
     probabilities |-> result.probabilities,
     timestamp |-> t]

\* variant: the response reports the probability of class 0 as confidence
TweetResponse_positive(result, t) ==
    [text |-> result.text,
     sentiment |-> result.sentiment,
     confidence |-> result.probabilities.positive,
     predicted_class |-> result.predicted_class,
     probabilities |-> result.probabilities,
     timestamp |-> t]

\* TweetResponse(**result, timestamp=datetime.now().isoformat())
TweetResponse(result, t) ==
    [text |-> result.text,
     sentiment |-> result.sentiment,
     confidence |-> result.confidence,
     predicted_class |-> result.predicted_class,
     probabilities |-> result.probabilities,
     timestamp |-> t]

(* ---------- lifecycle ---------- *)
\* startup_event, get_model() returns the model
startup_event ==
    /\ lifecycle = "Starting"
    /\ model' = "NegaBotModel"
    /\ lifecycle' = "Ready"
    /\ UNCHANGED <<now, store, req, submitted, faults>>

\* startup_event, get_model() raises: the process does not serve
startup_event_fails ==
    /\ lifecycle = "Starting"
    /\ lifecycle' = "Unavailable"
    /\ UNCHANGED <<model, now, store, req, submitted, faults>>

\* time passes between any two statements; a batch of max_items items is
\* handled within one tick
Tick ==
    /\ now < MaxNow
    /\ ~FullBatchSubmitted
    /\ now' = now + 1
    /\ UNCHANGED <<lifecycle, model, store, req, submitted, faults>>

(* ---------- GET /health ---------- *)
\* variant: the status does not depend on the model
HealthResponse_always_healthy(m, t) ==
    [status |-> "healthy",
     model_loaded |-> m # "None",
     timestamp |-> t]

\* HealthResponse(status=..., model_loaded=model is not None, timestamp=...)
HealthResponse(m, t) ==
    [status |-> IF m # "None" THEN "healthy" ELSE "unhealthy",
     model_loaded |-> m # "None",
     timestamp |-> t]

\* GET /health: the handler reads the global model and the clock
health_check(s) ==
    /\ MaySubmit(s)
    /\ req' = [req EXCEPT ![s] =
                 Done([Idle EXCEPT !.kind = "health"], 200,
                      HealthResponse(model, now))]
    /\ submitted' = submitted + 1
    /\ UNCHANGED <<lifecycle, model, now, store, faults>>

(* ---------- POST /predict ---------- *)
\* a request arrives; request: TweetRequest is validated before the handler
\* is entered
post_predict(s) ==
    /\ MaySubmit(s)
    /\ \E b \in PredictBodies :
          req' = [req EXCEPT ![s] =
                     LET r == [Idle EXCEPT !.kind = "predict", !.text = b[1],
                                           !.metadata = b[2]]
                     IN  IF TweetRequest(b[1])
                         THEN [r EXCEPT !.pc = "invoke"]
                         ELSE Raise(r, HTTPException(422, "text"))]
    /\ submitted' = submitted + 1
    /\ UNCHANGED <<lifecycle, model, now, store, faults>>

\* variant: a classifier call that raised is made again
predict_invoke_retry(s) ==
    /\ Serving /\ req[s].kind = "predict" /\ req[s].pc = "invoke"
    /\ model # "None"
    /\ \/ /\ req' = [req EXCEPT ![s] =
                       [@ EXCEPT !.results = <<predict(req[s].text)>>,
                                 !.responses =
                                     <<TweetResponse(predict(req[s].text), now)>>,
                                 !.calls = @ + 1,
                                 !.pc = "log"]]
          /\ UNCHANGED faults
       \/ /\ faults < MaxFaults
          /\ faults' = faults + 1
          /\ req' = [req EXCEPT ![s] = [@ EXCEPT !.calls = @ + 1]]
    /\ UNCHANGED <<lifecycle, model, now, store, submitted>>

\* the model is None check, result = model.predict(request.text) and
\* response = TweetResponse(..., timestamp=datetime.now().isoformat())
predict_invoke(s) ==
    /\ Serving /\ req[s].kind = "predict" /\ req[s].pc = "invoke"
    /\ IF model = "None"
       THEN /\ req' = [req EXCEPT ![s] =
                         Raise([@ EXCEPT !.sawNone = TRUE],
                               predict_except(ModelNotLoaded))]
            /\ UNCHANGED faults
       ELSE \/ /\ req' = [req EXCEPT ![s] =
                            [@ EXCEPT !.results = <<predict(req[s].text)>>,
                                      !.responses =
                                          <<TweetResponse(predict(req[s].text), now)>>,
                                      !.calls = @ + 1,
                                      !.pc = "log"]]
               /\ UNCHANGED faults
            \/ /\ faults < MaxFaults
               /\ faults' = faults + 1
               /\ req' = [req EXCEPT ![s] =
                            Raise([@ EXCEPT !.calls = @ + 1,
                                             !.fault = "classifier"],
                                  predict_except(ClassifierFault))]
    /\ UNCHANGED <<lifecycle, model, now, store, submitted>>

\* log_prediction(text=request.text, ...), then return response
predict_log(s) ==
    /\ Serving /\ req[s].kind = "predict" /\ req[s].pc = "log"
    /\ \/ /\ store' = log_prediction(store, now, req[s].text,
                                     req[s].results[1].sentiment,
                                     req[s].results[1].confidence,
                                     req[s].metadata)
          /\ req' = [req EXCEPT ![s] =
                       Done([@ EXCEPT !.appended = @ + 1], 200, @.responses[1])]
          /\ UNCHANGED faults
       \/ /\ faults < MaxFaults
          /\ faults' = faults + 1
          /\ \E e \in StoreFaults :
                req' = [req EXCEPT ![s] =
                          Raise([@ EXCEPT !.fault = "store"],
                                predict_except(e))]
          /\ UNCHANGED store
    /\ UNCHANGED <<lifecycle, model, now, submitted>>

predict_sentiment(s) ==
    \/ predict_invoke(s)
    \/ predict_log(s)

(* ---------- POST /batch_predict ---------- *)
\* variant: the results come out in reverse order
batch_predict_reversed(texts) ==
    [k \in 1..Len(texts) |-> predict(texts[Len(texts) + 1 - k])]

\* NegaBotModel.batch_predict: predict for each text, in order
batch_predict(texts) == [k \in 1..Len(texts) |-> predict(texts[k])]

\* a request arrives; request: BatchTweetRequest is validated before the
\* handler is entered
post_batch_predict(s) ==
    /\ MaySubmit(s)
    /\ \E b \in BatchBodies :
          /\ Len(b[1]) = TweetsMaxItems => submitted = 0
          /\ req' = [req EXCEPT ![s] =
                       LET r == [Idle EXCEPT !.kind = "batch_predict",
                                             !.tweets = b[1], !.metadata = b[2]]
                       IN  IF BatchTweetRequest(b[1])
                           THEN [r EXCEPT !.pc = "invoke"]
                           ELSE Raise(r, HTTPException(422, "tweets"))]
    /\ submitted' = submitted + 1
    /\ UNCHANGED <<lifecycle, model, now, store, faults>>

\* variant: each item is classified and appended before the next one is
\* classified, so a fault at text j leaves the records of the j - 1 texts
\* before it
RECURSIVE LogAll(_, _, _, _)
LogAll(rows, t, results, metadata) ==
    IF results = <<>> THEN rows
    ELSE LogAll(log_prediction(rows, t, Head(results).text,
                               Head(results).sentiment,
                               Head(results).confidence, metadata),
                t, Tail(results), metadata)

batch_invoke_per_item(s) ==
    /\ Serving /\ req[s].kind = "batch_predict" /\ req[s].pc = "invoke"
    /\ model # "None"
    /\ faults < MaxFaults
    /\ faults' = faults + 1
    /\ \E j \in 1..Len(req[s].tweets) :
          /\ store' = LogAll(store, now,
                             SubSeq(batch_predict(req[s].tweets), 1, j - 1),
                             req[s].metadata)
          /\ req' = [req EXCEPT ![s] =
                       Raise([@ EXCEPT !.calls = j, !.appended = j - 1,
                                       !.fault = "classifier"],
                             batch_except(ClassifierFault))]
    /\ UNCHANGED <<lifecycle, model, now, submitted>>

\* the model is None check and results = model.batch_predict(request.tweets):
\* every text is classified before the loop over the results starts; a
\* fault at text j ends the call after j invocations
batch_invoke(s) ==
    /\ Serving /\ req[s].kind = "batch_predict" /\ req[s].pc = "invoke"
    /\ IF model = "None"
       THEN /\ req' = [req EXCEPT ![s] =
                         Raise([@ EXCEPT !.sawNone = TRUE],
                               batch_except(ModelNotLoaded))]
            /\ UNCHANGED faults
       ELSE \/ /\ req' = [req EXCEPT ![s] =
                            [@ EXCEPT !.results = batch_predict(req[s].tweets),
                                      !.calls = Len(req[s].tweets),
                                      !.i = 1,
                                      !.pc = "log"]]
               /\ UNCHANGED faults
            \/ /\ faults < MaxFaults
               /\ faults' = faults + 1
               /\ \E j \in 1..Len(req[s].tweets) :
                     req' = [req EXCEPT ![s] =
                               Raise([@ EXCEPT !.calls = j,
                                               !.fault = "classifier"],
                                     batch_except(ClassifierFault))]
    /\ UNCHANGED <<lifecycle, model, now, store, submitted>>

\* the answer to a batch whose loop has ended: BatchTweetResponse(...)
BatchTweetResponse(responses, t) ==
    [results |-> responses,
     total_processed |-> Len(responses),
     timestamp |-> t]

\* variant: a failed append takes back the records the batch has appended
batch_log_rollback(s) ==
    /\ Serving /\ req[s].kind = "batch_predict" /\ req[s].pc = "log"
    /\ LET result == req[s].results[req[s].i]
           responses == Append(req[s].responses, TweetResponse(result, now))
       IN  \/ /\ store' = log_prediction(store, now, result.text,
                                         result.sentiment, result.confidence,
                                         req[s].metadata)
              /\ req' = [req EXCEPT ![s] =
                           LET r == [@ EXCEPT !.responses = responses,
                                              !.appended = @ + 1,
                                              !.i = @ + 1]
                           IN  IF req[s].i < Len(req[s].results) THEN r
                               ELSE Done(r, 200, BatchTweetResponse(responses, now))]
              /\ UNCHANGED faults
           \/ /\ faults < MaxFaults
              /\ faults' = faults + 1
              /\ req' = [req EXCEPT ![s] =
                           Raise([@ EXCEPT !.responses = responses,
                                           !.appended = 0,
                                           !.fault = "store"],
                                 batch_except(StoreFault))]
              /\ store' = SubSeq(store, 1, Len(store) - req[s].appended)
    /\ UNCHANGED <<lifecycle, model, now, submitted>>

\* one iteration of the loop over results: response = TweetResponse(...),
\* responses.append(response), log_prediction(text=result["text"], ...);
\* after the last iteration, return batch_response.  The clock is read once
\* in an iteration.
batch_log(s) ==
    /\ Serving /\ req[s].kind = "batch_predict" /\ req[s].pc = "log"
    /\ LET result == req[s].results[req[s].i]
           responses == Append(req[s].responses, TweetResponse(result, now))
       IN  \/ /\ store' = log_prediction(store, now, result.text,
                                         result.sentiment, result.confidence,
                                         req[s].metadata)
              /\ req' = [req EXCEPT ![s] =
                           LET r == [@ EXCEPT !.responses = responses,
                                              !.appended = @ + 1,
                                              !.i = @ + 1]
                           IN  IF req[s].i < Len(req[s].results) THEN r
                               ELSE Done(r, 200, BatchTweetResponse(responses, now))]
              /\ UNCHANGED faults
           \/ /\ faults < MaxFaults
              /\ faults' = faults + 1
              /\ req' = [req EXCEPT ![s] =
                           Raise([@ EXCEPT !.responses = responses,
                                           !.fault = "store"],
                                 batch_except(StoreFault))]
              /\ UNCHANGED store
    /\ UNCHANGED <<lifecycle, model, now, submitted>>

batch_predict_sentiment(s) ==
    \/ batch_invoke(s)
    \/ batch_log(s)

(* ---------- GET /stats and get_all_predictions ---------- *)
\* the lists get_all_predictions(limit) can return for the rows of the store
ReadOutcomes(limit) ==
    {get_all_predictions(store, limit, tie) : tie \in TieOrders}

\* GET /stats: predictions = get_all_predictions(), one query, then the
\* dict; a read fault makes get_all_predictions return []
get_prediction_stats(s) ==
    /\ MaySubmit(s)
    /\ LET r == [Idle EXCEPT !.kind = "stats"]
       IN  \/ /\ \E predictions \in ReadOutcomes(NoLimit) :
                    req' = [req EXCEPT ![s] =
                              Done(r, 200, StatsOf(predictions, now))]
              /\ UNCHANGED faults
           \/ /\ faults < MaxFaults
              /\ faults' = faults + 1
              /\ req' = [req EXCEPT ![s] =
                           Done([r EXCEPT !.fault = "read"], 200,
                                StatsOf(<<>>, now))]
    /\ submitted' = submitted + 1
    /\ UNCHANGED <<lifecycle, model, now, store>>

Limits == {NoLimit, 0, 1}

\* a direct call of database.get_all_predictions(limit): one query
call_get_all_predictions(s) ==
    /\ MaySubmit(s)
    /\ \E limit \in Limits :
          LET r == [Idle EXCEPT !.kind = "list", !.limit = limit]
          IN  \/ /\ \E predictions \in ReadOutcomes(limit) :
                       req' = [req EXCEPT ![s] =
                                 Done(r, 0, [predictions |-> predictions])]
                 /\ UNCHANGED faults
              \/ /\ faults < MaxFaults
                 /\ faults' = faults + 1
                 /\ req' = [req EXCEPT ![s] =
                              Done([r EXCEPT !.fault = "read"], 0,
                                   [predictions |-> <<>>])]
    /\ submitted' = submitted + 1
    /\ UNCHANGED <<lifecycle, model, now, store>>

(* ---------- PredictionLogger.get_stats ---------- *)
\* SELECT sentiment, COUNT(*) FROM predictions GROUP BY sentiment, then
\* sentiment_counts.get(sentiment, 0)
CountSentiment(rows, sentiment) ==
    Cardinality({k \in 1..Len(rows) : rows[k].sentiment = sentiment})

\* a call of PredictionLogger.get_stats, up to and including its first
\* query, SELECT COUNT(*): an empty table is answered at once, and a fault
\* makes the call return {}.  The queries are separate statements of one
\* connection, each reading the table as it is when it runs.
call_get_stats(s) ==
    /\ MaySubmit(s)
    /\ LET r == [Idle EXCEPT !.kind = "get_stats"]
       IN  \/ /\ req' = [req EXCEPT ![s] =
                            IF Len(store) = 0
                            THEN Done(r, 0, [total_predictions |-> 0,
                                             positive_count |-> 0,
                                             negative_count |-> 0,
                                             average_confidence |-> 0])
                            ELSE [r EXCEPT !.total_count = Len(store),
                                           !.pc = "group"]]
              /\ UNCHANGED faults
           \/ /\ faults < MaxFaults
              /\ faults' = faults + 1
              /\ req' = [req EXCEPT ![s] =
                           Done([r EXCEPT !.fault = "read"], 0, NoBody)]
    /\ submitted' = submitted + 1
    /\ UNCHANGED <<lifecycle, model, now, store>>

\* the second query of get_stats: the counts by sentiment
get_stats_group(s) ==
    /\ Serving /\ req[s].kind = "get_stats" /\ req[s].pc = "group"
    /\ req' = [req EXCEPT ![s] =
                 [@ EXCEPT !.sentiment_counts =
                               <<CountSentiment(store, "Positive"),
                                 CountSentiment(store, "Negative")>>,
                           !.pc = "avg"]]
    /\ UNCHANGED <<lifecycle, model, now, store, submitted, faults>>

\* the third query of get_stats, SELECT AVG(confidence), and the dict
\* returned
get_stats_avg(s) ==
    /\ Serving /\ req[s].kind = "get_stats" /\ req[s].pc = "avg"
    /\ req' = [req EXCEPT ![s] =
                 Done(@, 0,
                      [total_predictions |-> req[s].total_count,
                       positive_count |-> req[s].sentiment_counts[1],
                       negative_count |-> req[s].sentiment_counts[2],
                       average_confidence |->
                           RoundDiv(SumConfidence(store), Len(store))])]
    /\ UNCHANGED <<lifecycle, model, now, store, submitted, faults>>

get_stats(s) ==
    \/ call_get_stats(s)
    \/ get_stats_group(s)
    \/ get_stats_avg(s)

\* variant: the table is dropped and created again
init_database_recreate(rows) == <<>>

\* PredictionLogger.init_database: CREATE TABLE IF NOT EXISTS and CREATE
\* INDEX IF NOT EXISTS leave the rows of an existing table as they are
init_database(rows) == rows

\* a PredictionLogger is constructed over the existing database file, as
\* the dashboard does: __init__ runs init_database; the body notes how many
\* rows the table had
call_init_database(s) ==
    /\ MaySubmit(s)
    /\ store' = init_database(store)
    /\ req' = [req EXCEPT ![s] =
                 Done([Idle EXCEPT !.kind = "init"], 0, [rows |-> Len(store)])]
    /\ submitted' = submitted + 1
    /\ UNCHANGED <<lifecycle, model, now, faults>>

\* the (sentiment, predicted_class) arguments of a direct call of
\* PredictionLogger.log_prediction with an explicit predicted_class
LogCalls == {<<"Positive", 0>>, <<"Positive", 1>>}

\* a direct call of PredictionLogger.log_prediction(text, sentiment,
\* confidence, predicted_class=c): the argument is stored as given
call_log_prediction(s) ==
    /\ MaySubmit(s)
    /\ \E a \in LogCalls :
          /\ store' = PredictionLogger_log_prediction(store, now, "good", a[1],
                                                      9526, a[2], None)
          /\ req' = [req EXCEPT ![s] =
                       Done([Idle EXCEPT !.kind = "log", !.text = "good",
                                         !.appended = 1],
                            0, [sentiment |-> a[1], predicted_class |-> a[2]])]
    /\ submitted' = submitted + 1
    /\ UNCHANGED <<lifecycle, model, now, faults>>

(* ---------- specification ---------- *)
Next ==
    \/ startup_event
    \/ startup_event_fails
    \/ Tick
    \/ \E s \in Slots :
          \/ post_predict(s)
          \/ predict_sentiment(s)
          \/ post_batch_predict(s)
          \/ batch_predict_sentiment(s)
          \/ get_prediction_stats(s)
          \/ call_get_all_predictions(s)
          \/ call_log_prediction(s)
          \/ call_init_database(s)
          \/ get_stats(s)
          \/ health_check(s)

Spec == Init /\ [][Next]_vars

TypeOK ==
    /\ lifecycle \in {"Starting", "Ready", "Unavailable"}
    /\ model \in {"None", "NegaBotModel"}
    /\ now \in 0..MaxNow
    /\ submitted \in 0..MaxRequests
    /\ faults \in 0..MaxFaults

(* ---------- properties ---------- *)
Answered(s) == req[s].kind # "idle" /\ req[s].pc = "done"
IsPredict(s) == req[s].kind = "predict"
IsBatch(s) == req[s].kind = "batch_predict"

\* C1: a POST /predict or POST /batch_predict handled while the model is
\* None does not invoke the classifier, appends no record and is answered
\* with status 503.
C1_NotLoadedAnswers503 ==
    \A s \in Slots :
        (IsPredict(s) \/ IsBatch(s)) /\ Answered(s) /\ req[s].sawNone
            => /\ req[s].calls = 0
               /\ req[s].appended = 0
               /\ req[s].status = 503

\* C2: when K POST /predict requests are handled concurrently and all are
\* answered 200, the store holds exactly K more records than before, with
\* distinct ids, one for the response of each request; and every record
\* visible in the store is complete.
RowFields ==
    {"id", "text", "sentiment", "confidence", "predicted_class",
     "timestamp", "metadata", "created_at"}

RowComplete(row) ==
    /\ DOMAIN row = RowFields
    /\ row.id \in 1..Len(store)
    /\ row.sentiment \in {"Positive", "Negative"}
    /\ row.confidence \in 0..10000
    /\ row.predicted_class \in {0, 1}
    /\ row.timestamp \in 0..now
    /\ row.created_at \in 0..now

\* the requests in the slots are all the requests submitted so far
NoSlotReused ==
    Cardinality({s \in Slots : req[s].kind # "idle"}) = submitted

C2_ConcurrentPredictsPersisted ==
    /\ \A k \in 1..Len(store) : RowComplete(store[k]) /\ store[k].id = k
    /\ (NoSlotReused /\ \A s \in Slots :
            req[s].kind # "idle" =>
                IsPredict(s) /\ Answered(s) /\ req[s].status = 200)
         => /\ Len(store) = submitted
            /\ \E f \in [1..Len(store) -> Slots] :
                  /\ \A k, l \in 1..Len(store) : k # l => f[k] # f[l]
                  /\ \A k \in 1..Len(store) :
                        /\ store[k].text = req[f[k]].text
                        /\ store[k].sentiment = req[f[k]].body.sentiment
                        /\ store[k].confidence = req[f[k]].body.confidence

\* two requests were in flight together and both were answered 200
C2_Witness ==
    /\ MaxInflight >= 2
    /\ \A s \in 1..2 : IsPredict(s) /\ Answered(s) /\ req[s].status = 200
    /\ NoSlotReused
    /\ Len(store) = 2

\* C3: a POST /predict whose text has length 0 or above 1000, and a
\* POST /batch_predict with 0 or more than 50 items, is answered 422 when it
\* arrives: the classifier is not invoked and nothing is appended.
ViolatesConstraints(r) ==
    \/ r.kind = "predict" /\ (Len(r.text) = 0 \/ Len(r.text) > 1000)
    \/ r.kind = "batch_predict" /\ (Len(r.tweets) = 0 \/ Len(r.tweets) > 50)

C3_InvalidRejectedBeforeSideEffects ==
    [][\A s \in Slots :
          req'[s] # req[s] /\ ViolatesConstraints(req'[s])
              => /\ req'[s].pc = "done"
                 /\ req'[s].status = 422
                 /\ req'[s].calls = 0
                 /\ req'[s].appended = 0
                 /\ store' = store]_vars

\* a text of 1001 characters and a list of 51 items have been rejected
C3_Witness ==
    \E s \in Slots :
        /\ Answered(s) /\ req[s].status = 422
        /\ \/ IsPredict(s) /\ Len(req[s].text) = 1001
           \/ IsBatch(s) /\ Len(req[s].tweets) = 51

\* C4: a POST /batch_predict with 1 to 50 items, one of them the empty
\* string, is answered 422 and neither classified nor stored.
HasEmptyItem(r) ==
    /\ r.kind = "batch_predict"
    /\ Len(r.tweets) >= 1 /\ Len(r.tweets) <= 50
    /\ \E k \in 1..Len(r.tweets) : r.tweets[k] = ""

C4_EmptyItemRejected ==
    \A s \in Slots :
        HasEmptyItem(req[s])
            => /\ req[s].pc = "done"
               /\ req[s].status = 422
               /\ req[s].calls = 0
               /\ req[s].appended = 0

\* C5: when the classification of an item of a POST /batch_predict fails,
\* the request is answered with an error status and the response carries
\* no results.
C5_BatchAllOrNothing ==
    \A s \in Slots :
        IsBatch(s) /\ req[s].fault = "classifier"
            => /\ req[s].pc = "done"
               /\ req[s].status >= 400
               /\ "results" \notin DOMAIN req[s].body

\* the second item of a batch failed after the first had been classified
C5_Witness ==
    \E s \in Slots :
        /\ IsBatch(s) /\ Answered(s) /\ req[s].fault = "classifier"
        /\ req[s].calls = 2
        /\ req[s].status = 500

\* C6 (as stated): when the classification of item j of a batch fails, the
\* records of the items before it have been persisted.
C6_EarlierItemsPersisted ==
    \A s \in Slots :
        IsBatch(s) /\ Answered(s) /\ req[s].fault = "classifier"
            => req[s].appended = req[s].calls - 1

\* C6 (amended): every item of a batch is classified, in input order,
\* before the first record of the batch is appended; the records are then
\* appended one per item in input order (the texts of the items appended so
\* far occur in the store in that order).  When the classification of an
\* item fails, no record of that batch has been persisted.
RECURSIVE InOrderIn(_, _)
InOrderIn(texts, rows) ==
    IF texts = <<>> THEN TRUE
    ELSE IF rows = <<>> THEN FALSE
    ELSE IF Head(rows).text = Head(texts) THEN InOrderIn(Tail(texts), Tail(rows))
    ELSE InOrderIn(texts, Tail(rows))

C6_ClassifyAllThenAppend ==
    \A s \in Slots :
        IsBatch(s)
            => /\ req[s].fault = "classifier" => req[s].appended = 0
               /\ req[s].appended > 0
                    => /\ req[s].calls = Len(req[s].tweets)
                       /\ Len(req[s].results) = Len(req[s].tweets)
               /\ req[s].appended <= Len(req[s].tweets)
               /\ InOrderIn(SubSeq(req[s].tweets, 1, req[s].appended), store)

\* the second item of a batch failed and the store has no record of the
\* first
C6_Witness ==
    \E s \in Slots :
        /\ IsBatch(s) /\ Answered(s) /\ req[s].fault = "classifier"
        /\ req[s].calls = 2
        /\ req[s].appended = 0
        /\ store = <<>>

\* C7: a POST /batch_predict with N items, 1 <= N <= 50, each of 1 to 1000
\* characters, handled with the model loaded and without fault, is answered
\* 200 with N results, total_processed = N and results[i].text = tweets[i]
\* for every i, and appends exactly N records: in the step that returns, and
\* when no other request was submitted, the store holds N records, the
\* record of item i at position i.
ValidBatch(r) ==
    /\ r.kind = "batch_predict"
    /\ Len(r.tweets) >= 1 /\ Len(r.tweets) <= 50
    /\ \A k \in 1..Len(r.tweets) :
          Len(r.tweets[k]) >= 1 /\ Len(r.tweets[k]) <= 1000

Alone(s) == \A r \in Slots : r # s => req[r].kind = "idle"

C7_BatchReturnsAllInOrder ==
    \A s \in Slots :
        ValidBatch(req[s]) /\ Answered(s)
          /\ ~req[s].sawNone /\ req[s].fault = "none"
            => LET N == Len(req[s].tweets)
               IN  /\ req[s].status = 200
                   /\ Len(req[s].body.results) = N
                   /\ req[s].body.total_processed = N
                   /\ \A k \in 1..N :
                         req[s].body.results[k].text = req[s].tweets[k]
                   /\ req[s].appended = N
                   /\ Alone(s) /\ NoSlotReused
                        => /\ Len(store) = N
                           /\ \A k \in 1..N : store[k].text = req[s].tweets[k]

\* a batch of 50 items has been answered and its 50 records are in the store
C7_Witness ==
    \E s \in Slots :
        /\ ValidBatch(req[s]) /\ Answered(s) /\ req[s].status = 200
        /\ Alone(s) /\ NoSlotReused
        /\ Len(req[s].tweets) = 50
        /\ Len(store) = 50

\* C8: a step that answers a POST /predict with 200 appends exactly one
\* record, whose text is the request text and whose sentiment and
\* confidence are those of the response; every other step of a POST
\* /predict, one that answers with another status included, leaves the
\* store as it is; a request answered with another status has appended
\* nothing.
C8_OneRecordPerSuccessfulPredict ==
    [][\A s \in Slots :
          req'[s] # req[s] /\ req'[s].kind = "predict"
              => IF req'[s].pc = "done" /\ req'[s].status = 200
                 THEN /\ Len(store') = Len(store) + 1
                      /\ SubSeq(store', 1, Len(store)) = store
                      /\ store'[Len(store')].text = req'[s].text
                      /\ store'[Len(store')].sentiment = req'[s].body.sentiment
                      /\ store'[Len(store')].confidence = req'[s].body.confidence
                      /\ req'[s].appended = 1
                 ELSE /\ store' = store
                      /\ req'[s].appended = 0]_vars

\* a POST /predict has been answered 200 and its record is in the store
C8_Witness ==
    \E s \in Slots :
        /\ IsPredict(s) /\ Answered(s) /\ req[s].status = 200
        /\ req[s].appended = 1
        /\ \E k \in 1..Len(store) : store[k].text = req[s].text

\* C9: get_all_predictions returns the records newest first: of two
\* records, the one appended later (the one with the larger id) comes
\* earlier in the returned list.
C9_NewestFirst ==
    \A s \in Slots :
        req[s].kind = "list" /\ Answered(s)
            => \A k, l \in 1..Len(req[s].body.predictions) :
                  k < l => req[s].body.predictions[k].id
                             > req[s].body.predictions[l].id

\* C10: GET /stats on a store without records is answered 200 with total,
\* positive_count, negative_count, positive_percentage,
\* negative_percentage and average_confidence all present and all 0.
C10_EmptyStatsAllZero ==
    \A s \in Slots :
        req[s].kind = "stats" /\ Answered(s) /\ store = <<>>
            => /\ req[s].status = 200
               /\ {"total_predictions", "positive_count", "negative_count",
                   "positive_percentage", "negative_percentage",
                   "average_confidence"} \subseteq DOMAIN req[s].body
               /\ req[s].body.total_predictions = 0
               /\ req[s].body.positive_count = 0
               /\ req[s].body.negative_count = 0
               /\ req[s].body.positive_percentage = 0
               /\ req[s].body.negative_percentage = 0
               /\ req[s].body.average_confidence = 0

\* C11: a GET /stats whose read succeeded reports, in the step that answers
\* it, total_predictions = the number of stored records, positive_count =
\* the number of stored records with sentiment Positive, negative_count =
\* the number with sentiment Negative, and positive_count + negative_count
\* = total_predictions.
StoredWith(sentiment) ==
    Cardinality({k \in 1..Len(store) : store[k].sentiment = sentiment})

StatsAnswered(s) ==
    /\ req'[s] # req[s]
    /\ req'[s].kind = "stats"
    /\ req'[s].fault = "none"

C11_StatsCountsAddUp ==
    [][\A s \in Slots :
          StatsAnswered(s)
              => /\ req'[s].status = 200
                 /\ req'[s].body.total_predictions = Len(store)
                 /\ req'[s].body.positive_count = StoredWith("Positive")
                 /\ req'[s].body.negative_count = StoredWith("Negative")
                 /\ req'[s].body.positive_count + req'[s].body.negative_count
                      = req'[s].body.total_predictions]_vars

\* a GET /stats has been answered over a store with records of both
\* sentiments
C11_Witness ==
    \E s \in Slots :
        /\ req[s].kind = "stats" /\ Answered(s) /\ req[s].fault = "none"
        /\ req[s].body.total_predictions = 3
        /\ req[s].body.positive_count = 2
        /\ req[s].body.negative_count = 1
        /\ StoredWith("Positive") = 2 /\ StoredWith("Negative") = 1

\* C12: a GET /stats whose read succeeded over a non-empty store reports
\* positive_percentage and negative_percentage as the nearest hundredths of
\* count / total * 100, their sum within 0.1 of 100, and
\* average_confidence as the nearest ten-thousandth of the mean of the
\* stored confidences.
RECURSIVE SumOver(_, _)
SumOver(f, S) ==
    IF S = {} THEN 0
    ELSE LET k == CHOOSE x \in S : TRUE
         IN  f[k] + SumOver(f, S \ {k})

\* q is a nearest integer to n / d
Nearest(q, n, d) ==
    LET e == q * d - n
    IN  2 * (IF e < 0 THEN -e ELSE e) <= d

C12_StatsPercentagesAndMean ==
    [][\A s \in Slots :
          StatsAnswered(s) /\ store # <<>>
              => LET b == req'[s].body
                     total == Len(store)
                     sum == SumOver([k \in 1..total |-> store[k].confidence],
                                    1..total)
                     d == b.positive_percentage + b.negative_percentage - 10000
                 IN  /\ Nearest(b.positive_percentage,
                                StoredWith("Positive") * 10000, total)
                     /\ Nearest(b.negative_percentage,
                                StoredWith("Negative") * 10000, total)
                     /\ d >= -10 /\ d <= 10
                     /\ Nearest(b.average_confidence, sum, total)]_vars

\* a GET /stats has been answered over three records, two of them Positive:
\* 66.67 and 33.33 per cent, and a mean confidence that is not a multiple
\* of one ten-thousandth
C12_Witness ==
    \E s \in Slots :
        /\ req[s].kind = "stats" /\ Answered(s) /\ req[s].fault = "none"
        /\ Len(store) = 3
        /\ req[s].body.positive_percentage = 6667
        /\ req[s].body.negative_percentage = 3333
        /\ req[s].body.average_confidence * 3
             # store[1].confidence + store[2].confidence + store[3].confidence

\* C13: every record of the store has predicted_class 0 exactly when its
\* sentiment is Positive and predicted_class 1 exactly when its sentiment
\* is Negative, whether it was appended by the API or by a call of
\* PredictionLogger.log_prediction with or without predicted_class.
C13_StoredClassMatchesSentiment ==
    \A k \in 1..Len(store) :
        /\ store[k].predicted_class = 0 <=> store[k].sentiment = "Positive"
        /\ store[k].predicted_class = 1 <=> store[k].sentiment = "Negative"

\* C14: the prediction in a 200 response of POST /predict, and every
\* element of results in a 200 response of POST /batch_predict, has
\* predicted_class 0 exactly when its sentiment is "Positive" and
\* predicted_class 1 exactly when its sentiment is "Negative".
ClassMatchesSentiment(p) ==
    /\ p.predicted_class \in {0, 1}
    /\ p.predicted_class = 0 <=> p.sentiment = "Positive"
    /\ p.predicted_class = 1 <=> p.sentiment = "Negative"

C14_ReturnedClassMatchesSentiment ==
    \A s \in Slots :
        Answered(s) /\ req[s].status = 200
            => /\ IsPredict(s) => ClassMatchesSentiment(req[s].body)
               /\ IsBatch(s)
                    => \A k \in 1..Len(req[s].body.results) :
                          ClassMatchesSentiment(req[s].body.results[k])

\* a POST /predict has returned class 1 and a POST /batch_predict has
\* returned elements of both classes
C14_Witness ==
    /\ \E s \in Slots :
          /\ IsPredict(s) /\ Answered(s) /\ req[s].status = 200
          /\ req[s].body.predicted_class = 1
    /\ \E s \in Slots :
          /\ IsBatch(s) /\ Answered(s) /\ req[s].status = 200
          /\ \E k, l \in 1..Len(req[s].body.results) :
                /\ req[s].body.results[k].predicted_class = 0
                /\ req[s].body.results[l].predicted_class = 1

\* C15: a POST /predict whose text has 1 to 1000 characters, handled with
\* the model loaded and without classifier or store fault, is answered 200
\* with the text of the request, a sentiment in {Positive, Negative}, a
\* predicted_class in {0, 1} and a confidence in [0, 1].
ValidPredict(r) ==
    /\ r.kind = "predict"
    /\ Len(r.text) >= 1 /\ Len(r.text) <= 1000

C15_ValidPredictAnswered200 ==
    \A s \in Slots :
        ValidPredict(req[s]) /\ Answered(s)
          /\ ~req[s].sawNone /\ req[s].fault = "none"
            => /\ req[s].status = 200
               /\ req[s].body.text = req[s].text
               /\ req[s].body.sentiment \in {"Positive", "Negative"}
               /\ req[s].body.predicted_class \in {0, 1}
               /\ req[s].body.confidence >= 0
               /\ req[s].body.confidence <= 10000

\* a text of 1000 characters and a text of 3 or 4 characters have been
\* answered 200
C15_Witness ==
    /\ \E s \in Slots :
          /\ IsPredict(s) /\ Answered(s) /\ req[s].status = 200
          /\ Len(req[s].text) = 1000
    /\ \E s \in Slots :
          /\ IsPredict(s) /\ Answered(s) /\ req[s].status = 200
          /\ Len(req[s].text) < 5

\* C16: the record a POST /predict or POST /batch_predict appends, read
\* back as get_all_predictions returns it, carries the metadata of the
\* request: the supplied value when one was sent (the empty object
\* included), null only when none was sent.
AppendsRecord(s) ==
    /\ req[s].kind \in {"predict", "batch_predict"}
    /\ req[s].pc = "log"
    /\ req'[s].appended = req[s].appended + 1
    /\ Len(store') = Len(store) + 1

C16_MetadataReadBackUnmodified ==
    [][\A s \in Slots :
          AppendsRecord(s)
              => PredictionDict(store'[Len(store')]).metadata
                   = req[s].metadata]_vars

\* C17: the record a successful POST /predict appends carries the
\* timestamp returned to the caller in the response.
C17_StoredTimestampIsResponseTimestamp ==
    [][\A s \in Slots :
          AppendsRecord(s) /\ req'[s].kind = "predict"
            /\ req'[s].pc = "done" /\ req'[s].status = 200
              => store'[Len(store')].timestamp = req'[s].body.timestamp]_vars

\* C18: the store is append-only: every step, of the API or of
\* PredictionLogger (init_database on an existing database included),
\* leaves every record of the store present, at its place and with all its
\* fields unchanged.
C18_StoreAppendOnly ==
    [][/\ Len(store') >= Len(store)
       /\ \A k \in 1..Len(store) :
             /\ store'[k] = store[k]
             /\ DOMAIN store'[k] = RowFields]_vars

\* init_database has run on a database with records, and a record has been
\* appended after another
C18_Witness ==
    /\ \E s \in Slots :
          req[s].kind = "init" /\ Answered(s) /\ req[s].body.rows >= 1
    /\ Len(store) >= 2

\* C19: the lifecycle state is Starting, Ready or Unavailable; it changes
\* only from Starting to Ready, with the classifier loaded, and from
\* Starting to Unavailable, with the classifier not loaded; the classifier
\* is loaded only in the step that leaves Starting, so the load is not
\* attempted again; and once Unavailable no request is handled.
LifecycleStates ==
    lifecycle \in {"Starting", "Ready", "Unavailable"}

C19_Lifecycle ==
    [][/\ LifecycleStates /\ LifecycleStates'
       /\ lifecycle' # lifecycle
            => /\ lifecycle = "Starting"
               /\ lifecycle' \in {"Ready", "Unavailable"}
               /\ lifecycle' = "Ready" <=> model' # "None"
       /\ model' # model
            => lifecycle = "Starting" /\ lifecycle' = "Ready"
       /\ lifecycle = "Unavailable"
            => req' = req /\ store' = store /\ submitted' = submitted]_vars

\* the load has failed while requests could still be submitted, and time
\* has passed since
C19_Witness ==
    /\ lifecycle = "Unavailable"
    /\ model = "None"
    /\ submitted < MaxRequests
    /\ now = MaxNow

\* C20: the step that answers a GET /health answers 200, invokes no
\* classifier, reads and appends nothing in the store, reports
\* model_loaded true exactly when the lifecycle state is Ready, and reports
\* status "healthy" exactly when model_loaded is true.
C20_HealthReportsLifecycle ==
    [][\A s \in Slots :
          req'[s] # req[s] /\ req'[s].kind = "health"
              => /\ req'[s].pc = "done"
                 /\ req'[s].status = 200
                 /\ req'[s].calls = 0
                 /\ req'[s].appended = 0
                 /\ req'[s].fault = "none"
                 /\ store' = store
                 /\ req'[s].body.model_loaded <=> lifecycle = "Ready"
                 /\ req'[s].body.status = "healthy"
                      <=> req'[s].body.model_loaded
                 /\ req'[s].body.status \in {"healthy", "unhealthy"}]_vars

\* a GET /health has reported the model as loaded while the store held
\* records
C20_Witness ==
    \E s \in Slots :
        /\ req[s].kind = "health" /\ Answered(s)
        /\ req[s].body.model_loaded
        /\ req[s].body.status = "healthy"
        /\ Len(store) >= 1

\* C21: a POST /predict or POST /batch_predict in which the classifier
\* call or a store append raised is answered 500 and does nothing more;
\* within one request the classifier is invoked at most once for each text
\* and an append is attempted at most once for each item.
Texts(r) == IF r.kind = "predict" THEN 1 ELSE Len(r.tweets)

AppendsAttempted(r) == r.appended + (IF r.fault = "store" THEN 1 ELSE 0)

C21_SingleAttempt ==
    \A s \in Slots :
        IsPredict(s) \/ IsBatch(s)
            => /\ req[s].fault \in {"classifier", "store"}
                    => req[s].pc = "done" /\ req[s].status = 500
               /\ req[s].calls <= Texts(req[s])
               /\ AppendsAttempted(req[s]) <= Texts(req[s])
               /\ req[s].fault = "classifier" => req[s].appended = 0

\* a POST /predict whose append raised has been answered 500 after one
\* classifier call and one append attempt
C21_Witness ==
    \E s \in Slots :
        /\ IsPredict(s) /\ Answered(s) /\ req[s].fault = "store"
        /\ req[s].status = 500
        /\ req[s].calls = 1
        /\ AppendsAttempted(req[s]) = 1

\* C22: the response to a request in which the store raised does not
\* depend on the text of the exception: the body returned is the body the
\* handler returns for every other exception text as well.
C22_ErrorResponseIsGeneric ==
    \A s \in Slots :
        IsPredict(s) /\ Answered(s) /\ req[s].fault = "store"
            => \A e \in StoreFaults :
                  req[s].body = Raise(req[s], predict_except(e)).body

C24_StatsReadFaultIs500 ==
    [][\A s \in Slots :
          req'[s] # req[s] /\ req'[s].kind = "stats"
              => /\ req'[s].fault = "read" => req'[s].status = 500
                 /\ req'[s].status = 200 /\ req'[s].body.total_predictions = 0
                      => store = <<>>]_vars

\* C25: the dict PredictionLogger.get_stats returns satisfies
\* positive_count + negative_count = total_predictions, whatever appends
\* ran between its queries.
C25_GetStatsIsSnapshot ==
    \A s \in Slots :
        req[s].kind = "get_stats" /\ Answered(s) /\ req[s].fault = "none"
            => req[s].body.positive_count + req[s].body.negative_count
                 = req[s].body.total_predictions

\* C26: when the append for item i of a POST /batch_predict fails, every
\* item having been classified, the request is answered 500 without
\* results and the records of the items before item i, and no others of
\* that batch, have been added: when no other request was submitted the
\* store holds exactly those records, in input order.
C26_BatchStoreFaultKeepsEarlier ==
    \A s \in Slots :
        IsBatch(s) /\ req[s].fault = "store"
            => /\ req[s].pc = "done"
               /\ req[s].status = 500
               /\ "results" \notin DOMAIN req[s].body
               /\ req[s].calls = Len(req[s].tweets)
               /\ req[s].i \in 1..Len(req[s].tweets)
               /\ req[s].appended = req[s].i - 1
               /\ InOrderIn(SubSeq(req[s].tweets, 1, req[s].i - 1), store)
               /\ Alone(s) /\ NoSlotReused
                    => /\ Len(store) = req[s].i - 1
                       /\ \A k \in 1..Len(store) :
                             store[k].text = req[s].tweets[k]

\* the append for the third item of a batch has failed and the records of
\* the first two items are in the store
C26_Witness ==
    \E s \in Slots :
        /\ IsBatch(s) /\ Answered(s) /\ req[s].fault = "store"
        /\ req[s].i = 3
        /\ req[s].status = 500
        /\ Alone(s) /\ NoSlotReused
        /\ Len(store) = 2

\* C27: a call get_all_predictions(limit=n) with n >= 0 whose read
\* succeeded returns at most n records, the first min(n, total) elements
\* of a list get_all_predictions() returns for the same store; a call
\* without limit returns a record for every row.
Min(a, b) == IF a < b THEN a ELSE b

ListAnswered(s) ==
    /\ req'[s] # req[s]
    /\ req'[s].kind = "list"
    /\ req'[s].fault = "none"

C27_LimitReturnsPrefix ==
    [][\A s \in Slots :
          ListAnswered(s)
              => LET n == req'[s].limit
                     got == req'[s].body.predictions
                 IN  IF n = NoLimit
                     THEN Len(got) = Len(store)
                     ELSE /\ Len(got) <= n
                          /\ \E all \in ReadOutcomes(NoLimit) :
                                got = SubSeq(all, 1, Min(n, Len(store)))]_vars

====
